---- MODULE Spec2Model ----
(***************************************************************************)
(* Horoscope service (src/main.py, src/schemas.py): the read handler       *)
(* GET /api/horoscope, the generate handler POST /api/horoscope/generate,  *)
(* the liveness handler GET / and the diagnostic handler GET /test, over   *)
(* the document store reached through database.create_document and        *)
(* database.get_documents.                                                 *)
(*                                                                         *)
(* A string is a sequence of one-character strings, so that lower(),       *)
(* title(), ord() and isoformat() are computed character by character.     *)
(* Optional[date] is a set holding at most one date; {} is None.           *)
(***************************************************************************)
EXTENDS Integers, Sequences, FiniteSets

VARIABLES
    compats,   \* list(ZODIAC_SIGNS) of the running process: the set's iteration order
    db,        \* database.db of the running process: "None" or "Connected"
    store,     \* the horoscopereading collection, in insertion order
    nextId,    \* the next identifier the store assigns
    resp,      \* the last request handled by the running process and its response
    ops        \* the database helper calls made while handling that request

vars == <<compats, db, store, nextId, resp, ops>>

(***************************************************************************)
(* Characters and strings                                                  *)
(***************************************************************************)
LowerCase == <<"a","b","c","d","e","f","g","h","i","j","k","l","m",
               "n","o","p","q","r","s","t","u","v","w","x","y","z">>
UpperCase == <<"A","B","C","D","E","F","G","H","I","J","K","L","M",
               "N","O","P","Q","R","S","T","U","V","W","X","Y","Z">>
Digits == <<"0","1","2","3","4","5","6","7","8","9">>

Range(s) == {s[i] : i \in DOMAIN s}
IndexOf(s, c) == CHOOSE i \in DOMAIN s : s[i] = c

Chars == Range(LowerCase) \cup Range(UpperCase) \cup Range(Digits) \cup {"-"}

\* ord(c) for the ASCII characters a sign or an ISO date can hold
OrdTable ==
    [c \in Chars |->
        IF c \in Range(Digits) THEN 47 + IndexOf(Digits, c)
        ELSE IF c = "-" THEN 45
        ELSE IF c \in Range(UpperCase) THEN 64 + IndexOf(UpperCase, c)
        ELSE 96 + IndexOf(LowerCase, c)]
Ord(c) == OrdTable[c]

\* str.lower(), one character
LowerTable ==
    [c \in Chars |-> IF c \in Range(UpperCase) THEN LowerCase[IndexOf(UpperCase, c)] ELSE c]
LowerChar(c) == LowerTable[c]

\* str.upper(), one character
UpperTable ==
    [c \in Chars |-> IF c \in Range(LowerCase) THEN UpperCase[IndexOf(LowerCase, c)] ELSE c]
UpperChar(c) == UpperTable[c]

\* str.lower()
Lower(s) == [i \in DOMAIN s |-> LowerChar(s[i])]

\* str.title() of a single word of letters: first letter upper, the rest lower
Title(s) == [i \in DOMAIN s |-> IF i = 1 THEN UpperChar(s[i]) ELSE LowerChar(s[i])]

\* sum(ord(c) for c in s)
RECURSIVE SumOrd(_)
SumOrd(s) == IF s = <<>> THEN 0 ELSE Ord(Head(s)) + SumOrd(Tail(s))

\* s[:n]
Take(s, n) == SubSeq(s, 1, IF n < Len(s) THEN n ELSE Len(s))

(***************************************************************************)
(* Dates                                                                   *)
(***************************************************************************)
MkDate(y, m, d) == [year |-> y, month |-> m, day |-> d]

\* format(n, "0<w>d") for 0 <= n < 10^w
RECURSIVE Pad(_, _)
Pad(n, w) == IF w = 0 THEN <<>> ELSE Pad(n \div 10, w - 1) \o <<Digits[(n % 10) + 1]>>

\* date.isoformat(), also str(date): YYYY-MM-DD
isoformat(d) == Pad(d.year, 4) \o <<"-">> \o Pad(d.month, 2) \o <<"-">> \o Pad(d.day, 2)

\* isinstance(v, (datetime, date))
IsDate(v) == DOMAIN v = {"year", "month", "day"}

(***************************************************************************)
(* The zodiac signs                                                        *)
(***************************************************************************)
aries       == <<"a","r","i","e","s">>
taurus      == <<"t","a","u","r","u","s">>
gemini      == <<"g","e","m","i","n","i">>
cancer      == <<"c","a","n","c","e","r">>
leo         == <<"l","e","o">>
virgo       == <<"v","i","r","g","o">>
libra       == <<"l","i","b","r","a">>
scorpio     == <<"s","c","o","r","p","i","o">>
sagittarius == <<"s","a","g","i","t","t","a","r","i","u","s">>
capricorn   == <<"c","a","p","r","i","c","o","r","n">>
aquarius    == <<"a","q","u","a","r","i","u","s">>
pisces      == <<"p","i","s","c","e","s">>

\* the elements of the set literal, in the order they are written
SignList == <<aries, taurus, gemini, cancer, leo, virgo,
              libra, scorpio, sagittarius, capricorn, aquarius, pisces>>

ZODIAC_SIGNS == Range(SignList)

\* s rotated left by k places
Rotate(s, k) == [i \in DOMAIN s |-> s[((i - 1 + k) % Len(s)) + 1]]

\* list(ZODIAC_SIGNS): the iteration order of a set of strings follows the
\* strings' hashes, which are salted anew in every process, so any order of
\* the 12 signs can come out and it stays the same while the process runs.
\* The model draws the order from the rotations of the written order: they
\* put every sign at every index.
Orderings == {Rotate(SignList, k) : k \in 0 .. (Len(SignList) - 1)}

(***************************************************************************)
(* The generator: the body of generate_and_store up to the Reading         *)
(***************************************************************************)
moods == <<"radiant", "introspective", "bold", "curious", "grounded", "electric",
           "serene", "magnetic", "fearless", "visionary", "playful", "resolute">>
colors == <<"iridescent violet", "neon cyan", "plasma pink", "midnight indigo",
            "quantum gold", "holographic silver", "aurora teal", "cosmic amber">>
headlines == <<"Orbit your potential.", "Align with the signal.", "Rewrite today's script.",
               "Touch the ribbon of fate.", "Navigate the unknown.", "Spark a new circuit.">>
keywords_pool == <<"sync", "flow", "impulse", "clarity", "bridge", "pulse", "echo", "vector",
                   "harmony", "signal", "orbit", "ribbon", "thrive", "link", "spark">>

\* pool[n % len(pool)], the pool being 0-indexed in the source
Pick(pool, n) == pool[(n % Len(pool)) + 1]

\* seed = sum(ord(c) for c in (sign + d.isoformat()))
Seed(sign, d) == SumOrd(sign \o isoformat(d))

\* a variant of LuckyNumber: the modulus taken as 100
LuckyNumberMod100(seed) == (seed % 100) + 1

\* lucky_number = (seed % 99) + 1
LuckyNumber(seed) == (seed % 99) + 1

\* a variant of Compatibility: the fallback shifts by the length of the list
CompatibilityShiftLen(sign, seed, order) ==
    IF Pick(order, seed) = sign THEN Pick(order, seed + Len(order)) ELSE Pick(order, seed)

\* compatibility = compats[seed % len(compats)], and when that is the sign,
\* compats[(seed + 3) % len(compats)]
Compatibility(sign, seed, order) ==
    IF Pick(order, seed) = sign THEN Pick(order, seed + 3) ELSE Pick(order, seed)

\* a variant of Keywords: i runs over range(1, 4)
KeywordsFromOne(seed) == [i \in 1 .. 3 |-> Pick(keywords_pool, seed + i)]

\* [keywords_pool[(seed + i) % len(keywords_pool)] for i in range(3)]
Keywords(seed) == [i \in 1 .. 3 |-> Pick(keywords_pool, seed + (i - 1))]

\* the f-string: its literal pieces and the two values formatted into it
\* (the typographic apostrophe and dash of the source are written in ASCII)
Description(sign, mood) ==
    <<"Today, ", Title(sign), " tunes into a ", mood, " frequency.",
      " Signals you've been waiting on begin to resolve, forming patterns in plain sight.",
      " Trust your calibration and take one deliberate step forward.",
      " A chance encounter amplifies your intention - listen for echoes.">>

\* the keyword arguments handed to HoroscopeReading(...)
ReadingFields(sign, d, order) ==
    LET seed == Seed(sign, d)
        mood == Pick(moods, seed)
    IN  [sign           |-> sign,
         scope_date     |-> d,
         headline       |-> Pick(headlines, seed),
         description    |-> Description(sign, mood),
         mood           |-> mood,
         lucky_number   |-> LuckyNumber(seed),
         lucky_color    |-> Pick(colors, seed),
         keywords       |-> Keywords(seed),
         compatibility  |-> Compatibility(sign, seed, order)]

\* HoroscopeReading's field constraints: lucky_number has ge=0, le=99; the
\* other fields are given values of their declared types
SchemaAccepts(fields) == 0 <= fields.lucky_number /\ fields.lucky_number <= 99

\* a variant of ValidSign: the sign is looked up as given
ValidSignAsGiven(sign) == sign \in ZODIAC_SIGNS

\* sign.lower() in ZODIAC_SIGNS
ValidSign(sign) == Lower(sign) \in ZODIAC_SIGNS

(***************************************************************************)
(* The store: database.get_documents and database.create_document          *)
(***************************************************************************)
\* str(ObjectId): an injective rendering of the identifier
ObjectIdStr(id) == <<"o", "i", "d">> \o Pad(id, 4)

\* a document matches a filter when it agrees with it on every key of the filter
Matches(doc, filt) == \A k \in DOMAIN filt : doc[k] = filt[k]

\* get_documents(collection, filt, limit): the first `limit` matching documents
\* in the collection's natural (insertion) order
get_documents(coll, filt, limit) ==
    Take(SelectSeq(coll, LAMBDA doc : Matches(doc, filt)), limit)

\* the document create_document inserts: the model's fields and the new _id
Document(fields, id) ==
    [k \in DOMAIN fields \cup {"_id"} |-> IF k = "_id" THEN id ELSE fields[k]]

\* the collection after create_document
create_document(coll, fields, id) == Append(coll, Document(fields, id))

(***************************************************************************)
(* Responses                                                               *)
(***************************************************************************)
Response(op, sign, scope_date, status, body) ==
    [op |-> op, sign |-> sign, scope_date |-> scope_date, status |-> status, body |-> body]

NoResponse == Response("none", <<>>, {}, 0, [detail |-> ""])

\* raise HTTPException(status_code=400, detail="Invalid zodiac sign")
InvalidSign(op, sign, scope_date) ==
    Response(op, sign, scope_date, 400, [detail |-> "Invalid zodiac sign"])

\* an exception that leaves the handler: the framework answers 500
ServerError(op, sign, scope_date) ==
    Response(op, sign, scope_date, 500, [detail |-> "Internal Server Error"])

(***************************************************************************)
(* GET /api/horoscope                                                      *)
(***************************************************************************)
Limit == 10

\* a variant of Filter: the sign is put in the filter as given
FilterSignAsGiven(sign, scope_date) ==
    IF scope_date = {}
    THEN [sign |-> sign]
    ELSE [sign |-> sign, scope_date |-> CHOOSE d \in scope_date : TRUE]

\* a variant of Filter: the date is left out of the filter
FilterNoDate(sign, scope_date) == [sign |-> Lower(sign)]

\* filt = {"sign": sign.lower()}, plus scope_date when one is given
Filter(sign, scope_date) ==
    IF scope_date = {}
    THEN [sign |-> Lower(sign)]
    ELSE [sign |-> Lower(sign), scope_date |-> CHOOSE d \in scope_date : TRUE]

\* normalize(doc): _id leaves under the key id, as a string; a date becomes
\* the first 10 characters of its string
normalize(doc) ==
    LET d1 == IF "_id" \in DOMAIN doc
              THEN [k \in (DOMAIN doc \ {"_id"}) \cup {"id"} |->
                       IF k = "id" THEN ObjectIdStr(doc["_id"]) ELSE doc[k]]
              ELSE doc
    IN  IF "scope_date" \in DOMAIN d1 /\ IsDate(d1["scope_date"])
        THEN [d1 EXCEPT !["scope_date"] = Take(isoformat(d1["scope_date"]), 10)]
        ELSE d1

\* {"results": [normalize(x) for x in docs]}
Results(docs) == [results |-> [i \in DOMAIN docs |-> normalize(docs[i])]]

\* a variant of get_horoscope: the documents it returns are taken out of the
\* collection
get_horoscope_consuming(sign, scope_date) ==
    LET docs == get_documents(store, Filter(sign, scope_date), Limit)
    IN  IF ~ValidSign(sign)
        THEN /\ resp' = InvalidSign("read", sign, scope_date)
             /\ ops' = <<>>
             /\ UNCHANGED <<compats, db, store, nextId>>
        ELSE IF db = "None"
        THEN /\ resp' = ServerError("read", sign, scope_date)
             /\ ops' = <<"get_documents">>
             /\ UNCHANGED <<compats, db, store, nextId>>
        ELSE /\ resp' = Response("read", sign, scope_date, 200, Results(docs))
             /\ ops' = <<"get_documents">>
             /\ store' = SelectSeq(store, LAMBDA doc : doc \notin Range(docs))
             /\ UNCHANGED <<compats, db, nextId>>

get_horoscope(sign, scope_date) ==
    IF ~ValidSign(sign)
    THEN /\ resp' = InvalidSign("read", sign, scope_date)
         /\ ops' = <<>>
         /\ UNCHANGED <<compats, db, store, nextId>>
    ELSE IF db = "None"
    THEN \* get_documents raises: no database to query
         /\ resp' = ServerError("read", sign, scope_date)
         /\ ops' = <<"get_documents">>
         /\ UNCHANGED <<compats, db, store, nextId>>
    ELSE /\ resp' = Response("read", sign, scope_date, 200,
                             Results(get_documents(store, Filter(sign, scope_date), Limit)))
         /\ ops' = <<"get_documents">>
         /\ UNCHANGED <<compats, db, store, nextId>>

(***************************************************************************)
(* POST /api/horoscope/generate                                            *)
(***************************************************************************)
\* d = req.scope_date or date.today()
ScopeDate(scope_date, today) == IF scope_date = {} THEN today ELSE CHOOSE d \in scope_date : TRUE

\* a variant of generate_and_store: a reading already stored is not stored
\* again, and the identifier of the stored one is returned
generate_and_store_dedup(sign, scope_date, today) ==
    LET fields == ReadingFields(Lower(sign), ScopeDate(scope_date, today), compats)
        same == {i \in DOMAIN store : \A k \in DOMAIN fields : store[i][k] = fields[k]}
    IN  IF ~ValidSign(sign)
        THEN /\ resp' = InvalidSign("generate", sign, scope_date)
             /\ ops' = <<>>
             /\ UNCHANGED <<compats, db, store, nextId>>
        ELSE IF ~SchemaAccepts(fields)
        THEN /\ resp' = ServerError("generate", sign, scope_date)
             /\ ops' = <<>>
             /\ UNCHANGED <<compats, db, store, nextId>>
        ELSE IF db = "None"
        THEN /\ resp' = ServerError("generate", sign, scope_date)
             /\ ops' = <<"get_documents">>
             /\ UNCHANGED <<compats, db, store, nextId>>
        ELSE IF same # {}
        THEN /\ resp' = Response("generate", sign, scope_date, 200,
                  [id |-> ObjectIdStr(store[CHOOSE i \in same : TRUE]["_id"]),
                   reading |-> fields])
             /\ ops' = <<"get_documents">>
             /\ UNCHANGED <<compats, db, store, nextId>>
        ELSE /\ store' = create_document(store, fields, nextId)
             /\ nextId' = nextId + 1
             /\ resp' = Response("generate", sign, scope_date, 200,
                                 [id |-> ObjectIdStr(nextId), reading |-> fields])
             /\ ops' = <<"get_documents", "create_document">>
             /\ UNCHANGED <<compats, db>>

\* a variant of generate_and_store: the reading replaces the stored one for
\* the same sign and date
generate_and_store_upsert(sign, scope_date, today) ==
    LET fields == ReadingFields(Lower(sign), ScopeDate(scope_date, today), compats)
        old == {i \in DOMAIN store : /\ store[i].sign = fields.sign
                                     /\ store[i].scope_date = fields.scope_date}
    IN  IF ~ValidSign(sign)
        THEN /\ resp' = InvalidSign("generate", sign, scope_date)
             /\ ops' = <<>>
             /\ UNCHANGED <<compats, db, store, nextId>>
        ELSE IF ~SchemaAccepts(fields)
        THEN /\ resp' = ServerError("generate", sign, scope_date)
             /\ ops' = <<>>
             /\ UNCHANGED <<compats, db, store, nextId>>
        ELSE IF db = "None"
        THEN /\ resp' = ServerError("generate", sign, scope_date)
             /\ ops' = <<"create_document">>
             /\ UNCHANGED <<compats, db, store, nextId>>
        ELSE IF old # {}
        THEN LET i == CHOOSE i \in old : TRUE
             IN  /\ store' = [store EXCEPT ![i] = Document(fields, store[i]["_id"])]
                 /\ resp' = Response("generate", sign, scope_date, 200,
                                     [id |-> ObjectIdStr(store[i]["_id"]), reading |-> fields])
                 /\ ops' = <<"create_document">>
                 /\ UNCHANGED <<compats, db, nextId>>
        ELSE /\ store' = create_document(store, fields, nextId)
             /\ nextId' = nextId + 1
             /\ resp' = Response("generate", sign, scope_date, 200,
                                 [id |-> ObjectIdStr(nextId), reading |-> fields])
             /\ ops' = <<"create_document">>
             /\ UNCHANGED <<compats, db>>

generate_and_store(sign, scope_date, today) ==
    LET fields == ReadingFields(Lower(sign), ScopeDate(scope_date, today), compats)
    IN  IF ~ValidSign(sign)
        THEN /\ resp' = InvalidSign("generate", sign, scope_date)
             /\ ops' = <<>>
             /\ UNCHANGED <<compats, db, store, nextId>>
        ELSE IF ~SchemaAccepts(fields)
        THEN \* HoroscopeReading(...) raises a validation error
             /\ resp' = ServerError("generate", sign, scope_date)
             /\ ops' = <<>>
             /\ UNCHANGED <<compats, db, store, nextId>>
        ELSE IF db = "None"
        THEN \* create_document raises: no database to insert into
             /\ resp' = ServerError("generate", sign, scope_date)
             /\ ops' = <<"create_document">>
             /\ UNCHANGED <<compats, db, store, nextId>>
        ELSE /\ store' = create_document(store, fields, nextId)
             /\ nextId' = nextId + 1
             /\ resp' = Response("generate", sign, scope_date, 200,
                                 [id |-> ObjectIdStr(nextId), reading |-> fields])
             /\ ops' = <<"create_document">>
             /\ UNCHANGED <<compats, db>>

(***************************************************************************)
(* GET / and GET /test                                                     *)
(***************************************************************************)
read_root ==
    /\ resp' = Response("root", <<>>, {}, 200,
                        [message |-> "Futuristic Horoscope Backend is live"])
    /\ ops' = <<>>
    /\ UNCHANGED <<compats, db, store, nextId>>

\* db.list_collection_names()[:10]: a collection exists once a document is in it
Collections == IF store = <<>> THEN <<>> ELSE <<"horoscopereading">>

\* listing: whether db.list_collection_names() returns; url, name: whether
\* DATABASE_URL and DATABASE_NAME are set in the environment
test_database(listing, url, name) ==
    /\ resp' = Response("test", <<>>, {}, 200,
          [backend           |-> "Running",
           database          |-> IF db = "None" THEN "Available but not initialized"
                                 ELSE IF listing THEN "Connected & Working"
                                 ELSE "Connected but Error",
           database_url      |-> IF url THEN "Set" ELSE "Not Set",
           database_name     |-> IF name THEN "Set" ELSE "Not Set",
           connection_status |-> IF db = "None" THEN "Not Connected" ELSE "Connected",
           collections       |-> IF db # "None" /\ listing THEN Collections ELSE <<>>])
    /\ ops' = IF db = "None" THEN <<>> ELSE <<"list_collection_names">>
    /\ UNCHANGED <<compats, db, store, nextId>>

(***************************************************************************)
(* The process                                                             *)
(***************************************************************************)
\* a process starts: the module is imported, the set is built, database.db is
\* connected or left None; the collection is empty before the first run
Start(orders) ==
    /\ compats \in orders
    /\ db \in {"None", "Connected"}
    /\ store = <<>>
    /\ nextId = 1
    /\ resp = NoResponse
    /\ ops = <<>>

\* the process ends and a new one starts: the set is built anew and the
\* database is connected anew; the collection lives on in the database
Restart(orders) ==
    /\ compats' \in orders
    /\ db' \in {"None", "Connected"}
    /\ resp' = NoResponse
    /\ ops' = <<>>
    /\ UNCHANGED <<store, nextId>>

(***************************************************************************)
(* Requests                                                                *)
(***************************************************************************)
unicorn == <<"u","n","i","c","o","r","n">>

\* Optional[date] over a set of dates
Optional(dates) == {{}} \cup {{d} : d \in dates}

(***************************************************************************)
(* Spec: one process, many signs and dates, a small collection             *)
(***************************************************************************)
MaxStore == 1

SignInputs == {leo, sagittarius, virgo, <<"L","e","o">>, unicorn}
DateInputs == {MkDate(2022, 1, 1), MkDate(2023, 1, 1), MkDate(2024, 6, 29)}

Init == Start(Orderings)

Read == \E s \in SignInputs, sd \in Optional(DateInputs) : get_horoscope(s, sd)

Generate ==
    \E s \in SignInputs, sd \in Optional(DateInputs), today \in DateInputs :
        /\ Len(store) < MaxStore \/ ~ValidSign(s)
        /\ generate_and_store(s, sd, today)

Root == read_root

Test == \E listing \in BOOLEAN, url \in BOOLEAN, name \in BOOLEAN :
            test_database(listing, url, name)

Next == Read \/ Generate \/ Root \/ Test

Spec == Init /\ [][Next]_vars

(***************************************************************************)
(* SpecRuns: a sequence of processes over one database                     *)
(***************************************************************************)
MaxRunStore == 2

RunSigns == {leo, <<"L","E","O">>, unicorn}
RunDates == {MkDate(2024, 1, 15), MkDate(999, 12, 31)}
RunOrderings == {Rotate(SignList, k) : k \in {0, 3, 7}}

InitRuns == Start(RunOrderings)

ReadRuns == \E s \in RunSigns, sd \in Optional(RunDates) : get_horoscope(s, sd)

GenerateRuns ==
    \E s \in RunSigns, sd \in Optional(RunDates), today \in RunDates :
        /\ Len(store) < MaxRunStore \/ ~ValidSign(s)
        /\ generate_and_store(s, sd, today)

NewProcess == Restart(RunOrderings)

NextRuns == ReadRuns \/ GenerateRuns \/ Root \/ Test \/ NewProcess

SpecRuns == InitRuns /\ [][NextRuns]_vars

(***************************************************************************)
(* SpecDeep: one process, one sign, a collection larger than the limit     *)
(***************************************************************************)
MaxDeep == 11

DeepSigns == {<<"L","E","O">>}
DeepDates == {MkDate(2024, 1, 15), MkDate(2024, 1, 16)}

InitDeep == Start({SignList})

ReadDeep == \E s \in DeepSigns, sd \in Optional(DeepDates) : get_horoscope(s, sd)

GenerateDeep ==
    \E s \in DeepSigns, sd \in Optional(DeepDates), today \in DeepDates :
        /\ Len(store) < MaxDeep \/ ~ValidSign(s)
        /\ generate_and_store(s, sd, today)

NextDeep == ReadDeep \/ GenerateDeep

SpecDeep == InitDeep /\ [][NextDeep]_vars

(***************************************************************************)
(* Properties                                                              *)
(***************************************************************************)
\* The sum of the decimal digits of n
RECURSIVE DigitSum(_)
DigitSum(n) == IF n = 0 THEN 0 ELSE (n % 10) + DigitSum(n \div 10)

\* The sums of the character codes of the lowercase sign names
SignCodes(sign) ==
    CASE sign = aries -> 532        [] sign = taurus -> 676
      [] sign = gemini -> 633       [] sign = cancer -> 620
      [] sign = leo -> 320          [] sign = virgo -> 551
      [] sign = libra -> 522        [] sign = scorpio -> 767
      [] sign = sagittarius -> 1200 [] sign = capricorn -> 961
      [] sign = aquarius -> 875     [] sign = pisces -> 647

\* The seed as the specification gives it: the character codes of the
\* lowercase sign, then of YYYY-MM-DD: eight digits (code 48 + value) and two
\* hyphens (code 45)
SeedOf(sign, d) ==
    SignCodes(sign) + (8 * 48) + (2 * 45)
        + DigitSum(d.year) + DigitSum(d.month) + DigitSum(d.day)

\* The attributes of a stored document, its identifier aside
Attributes(doc) == [k \in DOMAIN doc \ {"_id"} |-> doc[k]]

\* C1: two generate operations with the same (sign, date) produce Readings
\* equal in every field, the store-assigned identifier aside, also when they
\* happen in different runs of the process.
C1_SameInputsSameReading ==
    \A i \in DOMAIN store : \A j \in DOMAIN store :
        (store[i].sign = store[j].sign /\ store[i].scope_date = store[j].scope_date)
            => Attributes(store[i]) = Attributes(store[j])

\* C2: the compatibility of a generated Reading is one of the 12 signs and is
\* never the Reading's sign: it is the entry at index seed mod 12 of the
\* ordering, and the entry at index (seed + 3) mod 12 when that one is the sign.
C2_CompatibilityNotSign ==
    \A i \in DOMAIN store :
        LET r == store[i]
            seed == SeedOf(r.sign, r.scope_date)
            first == compats[(seed % 12) + 1]
            shifted == compats[((seed + 3) % 12) + 1]
        IN  /\ r.compatibility \in ZODIAC_SIGNS
            /\ r.compatibility # r.sign
            /\ r.compatibility = IF first = r.sign THEN shifted ELSE first

\* C2 happens: a Reading is stored for which the first selection was the sign
C2_Witness ==
    \E i \in DOMAIN store :
        compats[(SeedOf(store[i].sign, store[i].scope_date) % 12) + 1] = store[i].sign

\* C3: the lucky_number of a generated Reading is (seed mod 99) + 1, within
\* 1..99, and a generate request for a valid sign fails only when there is no
\* database to insert into.
C3_LuckyNumber ==
    /\ \A i \in DOMAIN store :
          /\ store[i].lucky_number = (SeedOf(store[i].sign, store[i].scope_date) % 99) + 1
          /\ 1 <= store[i].lucky_number
          /\ store[i].lucky_number <= 99
    /\ (resp.op = "generate" /\ Lower(resp.sign) \in ZODIAC_SIGNS /\ db = "Connected")
          => resp.status = 200

\* C3 happens: a Reading with lucky_number 99 was generated and stored
C3_Witness ==
    /\ resp.op = "generate"
    /\ resp.status = 200
    /\ \E i \in DOMAIN store : store[i].lucky_number = 99

\* C4: the keywords of a generated Reading are exactly 3 entries, the i-th
\* (i = 0, 1, 2) being the keyword pool entry at index (seed + i) mod 15.
C4_Keywords ==
    \A n \in DOMAIN store :
        LET r == store[n]
            seed == SeedOf(r.sign, r.scope_date)
        IN  /\ Len(r.keywords) = 3
            /\ \A i \in 0 .. 2 : r.keywords[i + 1] = keywords_pool[((seed + i) % 15) + 1]

\* C4 happens: a Reading is stored whose keyword indices wrap around the pool
C4_Witness ==
    \E n \in DOMAIN store : SeedOf(store[n].sign, store[n].scope_date) % 15 >= 13

\* C5: a read or generate request whose sign, lowercased, is not one of the 12
\* signs is answered 400 with no database call and the collection unchanged;
\* a sign that is one of them up to letter case is not answered 400.
C5_InvalidSignRejected ==
    [][ resp'.op \in {"read", "generate"} =>
          IF Lower(resp'.sign) \in ZODIAC_SIGNS
          THEN resp'.status # 400
          ELSE resp'.status = 400 /\ ops' = <<>> /\ store' = store /\ nextId' = nextId
      ]_vars

\* C5 happens: an invalid sign was rejected while a document is stored
C5_Witness ==
    /\ resp.op = "generate"
    /\ resp.status = 400
    /\ store # <<>>

\* The date a YYYY-MM-DD string denotes: ten characters, hyphens at the fifth
\* and eighth, decimal digits elsewhere
DigitValue(c) == (CHOOSE i \in DOMAIN Digits : Digits[i] = c) - 1
IsYMD(str, d) ==
    /\ Len(str) = 10
    /\ str[5] = "-"
    /\ str[8] = "-"
    /\ \A i \in {1, 2, 3, 4, 6, 7, 9, 10} : str[i] \in Range(Digits)
    /\ d.year = (1000 * DigitValue(str[1])) + (100 * DigitValue(str[2]))
                    + (10 * DigitValue(str[3])) + DigitValue(str[4])
    /\ d.month = (10 * DigitValue(str[6])) + DigitValue(str[7])
    /\ d.day = (10 * DigitValue(str[9])) + DigitValue(str[10])

\* A returned record shows a stored document: the identifier under id, the
\* date as a YYYY-MM-DD string, every other attribute as stored
Shows(rec, doc) ==
    /\ DOMAIN rec = (DOMAIN doc \ {"_id"}) \cup {"id"}
    /\ rec.id = ObjectIdStr(doc["_id"])
    /\ IsYMD(rec.scope_date, doc.scope_date)
    /\ \A k \in DOMAIN doc \ {"_id", "scope_date"} : rec[k] = doc[k]

\* The last request was a read that returned records
ReadReturned == resp.op = "read" /\ resp.status = 200

\* The stored documents a read for (sign, scope_date) asks for
Asked(sign, scope_date) ==
    {i \in DOMAIN store : /\ store[i].sign = Lower(sign)
                          /\ scope_date # {} => store[i].scope_date \in scope_date}

\* C6 as claimed: a Reading inserted by the generate handler is in the result
\* of a read filtered by its sign and scope_date, however many other records
\* with that sign and scope_date are stored.
C6_RoundTripAnyNumber ==
    (ReadReturned /\ resp.scope_date # {}) =>
        \A i \in Asked(resp.sign, resp.scope_date) :
            \E j \in DOMAIN resp.body.results : Shows(resp.body.results[j], store[i])

\* C6 amended: a Reading inserted by the generate handler is in the result of
\* a read filtered by its sign and scope_date, with the same attribute values,
\* when no more than 10 records with that sign and scope_date are stored.
C6_RoundTripWithinLimit ==
    (/\ ReadReturned
     /\ resp.scope_date # {}
     /\ Cardinality(Asked(resp.sign, resp.scope_date)) <= 10) =>
        \A i \in Asked(resp.sign, resp.scope_date) :
            \E j \in DOMAIN resp.body.results : Shows(resp.body.results[j], store[i])

\* C6 happens: a read by sign and date returned 10 stored records while a
\* record of another date is stored too
C6_Witness ==
    /\ ReadReturned
    /\ resp.scope_date # {}
    /\ Cardinality(Asked(resp.sign, resp.scope_date)) = 10
    /\ Len(resp.body.results) = 10
    /\ Len(store) > 10

\* C7: every successful generate request adds exactly one record, the one it
\* returns, also for a (sign, date) already stored, and no two stored records
\* share an identifier.
C7_OneNewRecordEach ==
    /\ [](\A i \in DOMAIN store : \A j \in DOMAIN store :
              i # j => store[i]["_id"] # store[j]["_id"])
    /\ []((resp.op = "generate" /\ resp.status = 200) =>
              /\ store # <<>>
              /\ resp.body.id = ObjectIdStr(store[Len(store)]["_id"])
              /\ resp.body.reading = Attributes(store[Len(store)]))
    /\ [][ (resp'.op = "generate" /\ resp'.status = 200) =>
              /\ Len(store') = Len(store) + 1
              /\ SubSeq(store', 1, Len(store)) = store
         ]_vars

\* C7 happens: two records with the same attribute values are stored
C7_Witness ==
    \E i \in DOMAIN store : \E j \in DOMAIN store :
        /\ i # j
        /\ Attributes(store[i]) = Attributes(store[j])
        /\ store[i]["_id"] # store[j]["_id"]

\* C8: across read, generate, liveness and diagnostic requests and process
\* restarts, every stored record stays stored with unchanged attribute values
\* and identifier; the store changes only by a successful generate request
\* adding one record.
C8_RecordsPersist ==
    [][ /\ Len(store') >= Len(store)
        /\ SubSeq(store', 1, Len(store)) = store
        /\ store' # store =>
              /\ resp'.op = "generate"
              /\ resp'.status = 200
              /\ Len(store') = Len(store) + 1
      ]_vars

\* C8 happens: two records are stored, of two process runs, and a read was served
C8_Witness ==
    /\ Len(store) = 2
    /\ store[1].sign = store[2].sign
    /\ store[1].scope_date = store[2].scope_date
    /\ store[1].compatibility # store[2].compatibility
    /\ ReadReturned

\* C9: a read request leaves the store unchanged, and a read that follows a
\* read with the same (sign, scope_date) filter returns the same records.
C9_ReadIdempotent ==
    [][ resp'.op = "read" =>
          /\ store' = store
          /\ nextId' = nextId
          /\ (/\ ReadReturned
              /\ resp'.status = 200
              /\ Lower(resp'.sign) = Lower(resp.sign)
              /\ resp'.scope_date = resp.scope_date)
                => resp'.body = resp.body
      ]_vars

\* C9 happens: a read returned stored records for a sign given in capitals
C9_Witness ==
    /\ ReadReturned
    /\ resp.sign # Lower(resp.sign)
    /\ Len(resp.body.results) = 2

====
